---------------------------- MODULE Spec2Model ----------------------------
(***************************************************************************)
(* Model of the news ingestion pipeline of kibana_app.py: the page         *)
(* generator NewsIngestionPipeline._fetch_news_pages, the consumer loop    *)
(* NewsIngestionPipeline.run, ElasticsearchService.index_document,         *)
(* transform_news_article and get_iso_code.                                *)
(*                                                                         *)
(* Python values are tagged records so that values of different Python     *)
(* types can be compared: None, str, list, dict, float, datetime.  A dict  *)
(* is a function whose DOMAIN is the set of keys present.  Floats are      *)
(* integers counting millionths (0.123456 is 123456).                      *)
(***************************************************************************)
EXTENDS Integers, Sequences, FiniteSets, TLC

\* ------------------------------------------------------------ bounds
\* Largest --num_pages value tried.
MaxPages == 2
\* Upstream requests after which the stub client is not asked again.
MaxRequests == MaxPages
\* Largest number of articles in one upstream page.
MaxArticles == 2
\* Articles the upstream feed holds in total over one run.
MaxFeed == 2
\* Publish dates are the instants 1..MaxDate.
MaxDate == 2

\* ------------------------------------------------------- Python values
PyNone == [t |-> "None"]
PyStr(s) == [t |-> "str", v |-> s]
PyList(s) == [t |-> "list", v |-> s]
PyDict(f) == [t |-> "dict", v |-> f]
PyFloat(n) == [t |-> "float", v |-> n]
PyDatetime(n) == [t |-> "datetime", v |-> n]
PyRaise(e) == [t |-> "raise", v |-> e]

EmptyDict == [k \in {} |-> PyNone]

\* Python truth value testing, as used by `if x`, `not x`, `and`.
Truthy(x) ==
    CASE x.t = "None" -> FALSE
      [] x.t = "str" -> x.v # ""
      [] x.t = "list" -> Len(x.v) # 0
      [] x.t = "dict" -> DOMAIN x.v # {}
      [] x.t = "float" -> x.v # 0
      [] OTHER -> TRUE

\* dict.get(key, default)
DictGet(d, key, default) == IF key \in DOMAIN d THEN d[key] ELSE default

\* d[key] = value
DictSet(d, key, value) == [k \in DOMAIN d \cup {key} |-> IF k = key THEN value ELSE d[k]]

\* dict.pop(key, None)
DictPop(d, key) == [k \in DOMAIN d \ {key} |-> d[k]]

\* round(x, 4) on millionths: to the nearest ten-thousandth.
Round4(n) == ((n + 50) \div 100) * 100

\* ------------------------------------------------------ get_iso_code
COUNTRY_FALLBACKS ==
    [k \in {"brunei", "cape verde", "dr congo", "ivory coast", "kosovo", "macau",
            "macedonia", "micronesia", "russia", "turkey", "vatican"} |->
        CASE k = "brunei" -> "BN" [] k = "cape verde" -> "CV" [] k = "dr congo" -> "CD"
          [] k = "ivory coast" -> "CI" [] k = "kosovo" -> "XK" [] k = "macau" -> "MO"
          [] k = "macedonia" -> "MK" [] k = "micronesia" -> "FM" [] k = "russia" -> "RU"
          [] k = "turkey" -> "TR" [] k = "vatican" -> "VA"]

\* str.lower() on the country names the model uses.
StrLower(s) ==
    CASE s = "Ivory Coast" -> "ivory coast"
      [] s = "France" -> "france"
      [] s = "Wakanda" -> "wakanda"
      [] s = "RUSSIA" -> "russia"
      [] s = "Turkey" -> "turkey"
      [] OTHER -> s

\* pycountry.countries.lookup(name).alpha_2 for the names the model uses, as
\* the library ships it; a name outside the table raises LookupError.
PycountryAlpha2 == [k \in {"france", "india", "fr", "turkey"} |->
    CASE k = "france" -> "FR" [] k = "india" -> "IN" [] k = "fr" -> "FR"
      [] k = "turkey" -> "TR"]

\* The library is imported, not part of the program: its table is the one
\* above, or one that also knows a name of COUNTRY_FALLBACKS under another
\* code.
PycountryTables == {PycountryAlpha2, ("ivory coast" :> "IC") @@ PycountryAlpha2}

VARIABLE pycountry             \* the table pycountry.countries.lookup answers from

\* get_iso_code without the call of str.lower().
get_iso_codeAsGiven(country_name) ==
    IF country_name.t # "str" THEN PyNone
    ELSE LET country_name_lower == country_name.v IN
         IF country_name_lower \in DOMAIN COUNTRY_FALLBACKS
         THEN PyStr(COUNTRY_FALLBACKS[country_name_lower])
         ELSE IF country_name_lower \in DOMAIN pycountry
              THEN PyStr(pycountry[country_name_lower])
              ELSE PyNone

get_iso_code(country_name) ==
    IF country_name.t # "str" THEN PyNone
    ELSE LET country_name_lower == StrLower(country_name.v) IN
         IF country_name_lower \in DOMAIN COUNTRY_FALLBACKS
         THEN PyStr(COUNTRY_FALLBACKS[country_name_lower])
         ELSE IF country_name_lower \in DOMAIN pycountry
              THEN PyStr(pycountry[country_name_lower])
              ELSE PyNone

\* ------------------------------------------- transform_news_article
SentimentLabels == <<"positive", "negative", "neutral">>

ScoreKey(key) ==
    CASE key = "positive" -> "sentiment_score_positive"
      [] key = "negative" -> "sentiment_score_negative"
      [] key = "neutral" -> "sentiment_score_neutral"

ScoreKeys == {ScoreKey(SentimentLabels[i]) : i \in 1..3}

\* x[0] for the Python value x: the first element, or the exception raised.
Subscript0(x) ==
    CASE x.t = "list" -> IF Len(x.v) = 0 THEN PyRaise("IndexError") ELSE x.v[1]
      [] x.t = "str" -> IF x.v = "" THEN PyRaise("IndexError") ELSE PyStr("?")
      [] x.t = "dict" -> PyRaise("KeyError")
      [] OTHER -> PyRaise("TypeError")

\* Line 179: the guard of the flattening loop.
FlattenGuard(sentiment, sentiment_stats) ==
    /\ Truthy(sentiment)
    /\ Truthy(sentiment_stats)
    /\ sentiment.t = "str"
    /\ \E i \in 1..3 : sentiment.v = SentimentLabels[i]

\* Lines 180-181: the three flattened fields written into the article.
FlattenScores(article, sentiment_stats) ==
    [k \in DOMAIN article \cup ScoreKeys |->
        IF k \in ScoreKeys
        THEN LET key == CHOOSE l \in {SentimentLabels[i] : i \in 1..3} : ScoreKey(l) = k
             IN PyFloat(Round4(DictGet(sentiment_stats.v, key, PyFloat(0)).v))
        ELSE article[k]]

\* The dict object `article` as transform_news_article leaves it, or the
\* exception it raises; `now` is datetime.now() cut to the second.  The
\* function writes into its argument and returns that same object.
transform_news_article(article, now) ==
    LET country_name == Subscript0(DictGet(article, "country", PyList(<<PyNone>>)))
    IN IF country_name.t = "raise" THEN country_name
       ELSE
       LET sentiment == DictGet(article, "sentiment", PyNone)
           a1 == DictSet(article, "dateandtime", PyDatetime(now))
           a2 == DictSet(a1, "country_code",
                         IF Truthy(country_name) THEN get_iso_code(country_name) ELSE PyNone)
           a3 == DictSet(a2, "country", country_name)
           sentiment_stats == DictGet(a3, "sentiment_stats", PyDict(EmptyDict))
           flatten == FlattenGuard(sentiment, sentiment_stats)
       IN IF flatten /\ sentiment_stats.t # "dict" THEN PyRaise("AttributeError")
          ELSE PyDict(DictPop(IF flatten THEN FlattenScores(a3, sentiment_stats) ELSE a3,
                              "sentiment_stats"))

\* ------------------------------------------------------- date parsing
\* The texts that datetime.strptime(s, '%Y-%m-%d %H:%M:%S') accepts, in
\* chronological order: DateTexts[n] is the text of the instant n.
DateTexts == <<"2024-01-01 00:00:00", "2024-01-02 00:00:00", "2024-01-03 00:00:00",
               "2024-01-04 00:00:00", "2024-01-05 00:00:00">>

\* A publish date in another format (ISO 8601 with a T and a zone).
IsoDateText == "2024-01-01T00:00:00Z"

\* datetime.strptime(pub_date_str, '%Y-%m-%d %H:%M:%S')
Strptime(s) ==
    IF s.t # "str" THEN PyRaise("TypeError")
    ELSE IF \E n \in 1..Len(DateTexts) : DateTexts[n] = s.v
         THEN PyDatetime(CHOOSE n \in 1..Len(DateTexts) : DateTexts[n] = s.v)
         ELSE PyRaise("ValueError")

\* ------------------------------------------------------------- inputs
\* The value datetime.now() returns at second precision.
Now == 9

Title == "title" :> PyStr("t")

\* Raw articles the upstream feed serves to the pipeline: without a publish
\* date, or with a well-formed one.
FeedArticles ==
    {Title} \cup {Title @@ ("pubDate" :> PyStr(DateTexts[n])) : n \in 1..MaxDate}

\* Raw articles on which run() raises: a publish date in another format,
\* and an empty country list.
AbortingArticles ==
    {Title @@ ("pubDate" :> PyStr(IsoDateText)),
     Title @@ ("pubDate" :> PyStr(DateTexts[1])) @@ ("country" :> PyList(<<>>))}

\* Sequences over S of length lo..hi.
SeqsOf(S, lo, hi) == UNION {[1..n -> S] : n \in lo..hi}

\* The article lists of at most `most` articles.  run() reads nothing after
\* an article it raises on, so such an article is the last of its list.
ResultLists(most) ==
    SeqsOf(FeedArticles, 0, most)
    \cup {Append(r, a) : r \in SeqsOf(FeedArticles, 0, most - 1), a \in AbortingArticles}

\* The next-cursor a response may carry: the key missing, or a token.
Cursors == {EmptyDict, "nextPage" :> PyStr("a")}

\* Responses the upstream client can return when the feed has `room`
\* articles left to serve.  A response whose status is not success carries
\* one article too, which run() must leave alone.
Responses(room) ==
    {("status" :> PyStr("success")) @@ ("results" :> PyList(r)) @@ c :
        r \in ResultLists(IF room < MaxArticles THEN room ELSE MaxArticles),
        c \in Cursors}
    \cup {("status" :> PyStr("error")) @@ ("results" :> PyList(<<Title>>)) @@ c :
        c \in Cursors}

\* What news_api() can raise.
ApiExceptions == {"NewsdataException", "ConnectionError"}

\* What es_client.index() can do: return, or raise one of these.
IndexOutcomes == {"ok", "ApiError", "ConnectionError", "SerializationError"}

\* ------------------------------------------------------------- state
VARIABLES
    pc,                        \* position of main()/run()
    exc,                       \* the exception that left run(), or "none"
    config,                    \* Config: fetch_all_pages, num_pages
    genpc,                     \* generator: "start", "yielded" or "done"
    page,                      \* generator local: the cursor
    pages_fetched,             \* generator local
    response_page,             \* the response object yielded last
    idx,                       \* index of the article being handled
    total_articles_processed,  \* run() local
    earliest_article_date,     \* run() local
    pbar,                      \* number of pbar.update(1) calls
    log,                       \* the log records written, in order
    es_docs,                   \* documents the datastore accepted, in order
    index_calls,               \* number of index_document calls
    served,                    \* what each upstream request produced, in order
    script,                    \* responses a scripted upstream returns, in order
    t_input,                   \* the raw article given to transform_news_article
    t_article,                 \* that dict object, which the function writes to
    t_result                   \* what the call returned or raised

vars == <<pc, exc, config, genpc, page, pages_fetched, response_page, idx,
          total_articles_processed, earliest_article_date, pbar, log, es_docs,
          index_calls, served, script, t_input, t_article, t_result, pycountry>>

\* The variables only the scripted run and the calls of the transformer set.
harness == <<script, t_input, t_article, t_result, pycountry>>

NoResponse == EmptyDict

\* Number of upstream requests issued.
Requests == Len(served)

\* Articles the feed has served in success pages so far.
RECURSIVE FeedUsed(_)
FeedUsed(s) ==
    IF s = <<>> THEN 0
    ELSE FeedUsed(Tail(s))
         + (IF Head(s).kind = "response" /\ Head(s).success THEN Head(s).n ELSE 0)

\* Times the record e was logged.
RECURSIVE Count(_, _)
Count(s, e) == IF s = <<>> THEN 0 ELSE Count(Tail(s), e) + (IF Head(s) = e THEN 1 ELSE 0)

\* ------------------------------------------------------------- main()
\* Command lines: whether the three credentials are all set, and the text
\* given to --num_pages (a word, or the decimal text of an integer).
ArgWord(w) == [kind |-> "word", word |-> w, n |-> 0]
ArgInt(n) == [kind |-> "int", word |-> "", n |-> n]
NumPagesArgs == {ArgWord("all"), ArgWord("ALL"), ArgWord("abc")}
                \cup {ArgInt(n) : n \in -1..MaxPages}

\* args.num_pages.lower() == 'all'
IsAll(arg) == arg.kind = "word" /\ arg.word \in {"all", "ALL"}

\* int(args.num_pages)
ParseInt(arg) == IF arg.kind = "int" THEN arg.n ELSE PyRaise("ValueError")

\* Config.from_args: the Config built, or the ValueError raised.
from_args(credentials, num_pages_arg) ==
    IF ~credentials THEN PyRaise("ValueError")
    ELSE LET fetch_all == IsAll(num_pages_arg) IN
         IF ~fetch_all /\ num_pages_arg.kind # "int" THEN PyRaise("ValueError")
         ELSE [t |-> "Config",
               fetch_all_pages |-> fetch_all,
               num_pages |-> IF fetch_all THEN 0 ELSE ParseInt(num_pages_arg)]

NoConfig == [t |-> "None"]

\* Lines 318-323: the record main() logs for an exception that reaches it.
CriticalRecord(e) ==
    IF e \in {"ValueError", "AuthenticationException", "ConnectionError"}
    THEN "critical: setup error" ELSE "critical: unexpected error"

\* The except clauses of main(): the exception is logged and main returns.
Propagate(e) ==
    /\ pc' = "failed"
    /\ exc' = e
    /\ log' = Append(log, CriticalRecord(e))

\* main(), step 1: config = Config.from_args()
LoadConfig(credentials, num_pages_arg) ==
    /\ UNCHANGED harness
    /\ pc = "main"
    /\ LET c == from_args(credentials, num_pages_arg) IN
       IF c.t = "raise"
       THEN Propagate(c.v) /\ UNCHANGED config
       ELSE pc' = "connect" /\ config' = c /\ UNCHANGED <<exc, log>>
    /\ UNCHANGED <<genpc, page, pages_fetched, response_page, idx,
                   total_articles_processed, earliest_article_date, pbar, es_docs,
                   index_calls, served>>

\* main(), step 2: ElasticsearchService.__init__ checks the connection.
ConnectOutcomes == {"ok", "AuthenticationException", "ConnectionError"}

\* Mutant of the connection check: a failure is logged and main() goes on.
ConnectESLogOnly(outcome) ==
    /\ UNCHANGED harness
    /\ pc = "connect"
    /\ pc' = "run"
    /\ log' = Append(log, IF outcome = "ok" THEN "info: connected" ELSE CriticalRecord(outcome))
    /\ UNCHANGED <<exc, config, genpc, page, pages_fetched, response_page, idx,
                   total_articles_processed, earliest_article_date, pbar, es_docs,
                   index_calls, served>>

ConnectES(outcome) ==
    /\ UNCHANGED harness
    /\ pc = "connect"
    /\ IF outcome = "ok"
       THEN pc' = "run" /\ log' = Append(log, "info: connected") /\ UNCHANGED exc
       ELSE Propagate(outcome)
    /\ UNCHANGED <<config, genpc, page, pages_fetched, response_page, idx,
                   total_articles_processed, earliest_article_date, pbar, es_docs,
                   index_calls, served>>

\* -------------------------------------------------------------- run()
\* Lines 245-255: run() sets its locals and creates the generator.
RunStart ==
    /\ UNCHANGED harness
    /\ pc = "run"
    /\ pc' = "pull"
    /\ log' = Append(log, "info: starting")
    /\ total_articles_processed' = 0
    /\ earliest_article_date' = PyNone
    /\ genpc' = "start"
    /\ UNCHANGED <<exc, config, page, pages_fetched, response_page, idx, pbar,
                   es_docs, index_calls, served>>

\* ------------------------------------------------- _fetch_news_pages
\* The generator runs only while run() waits in `for response_page in
\* page_iterator`.  Resumed after a yield it first executes lines 229-234.
ResumedPage ==
    IF genpc = "yielded" THEN DictGet(response_page, "nextPage", PyNone) ELSE page

\* Mutant of line 230: only a success page that holds articles is counted.
ResumedFetchedWithArticles ==
    IF /\ genpc = "yielded"
       /\ DictGet(response_page, "status", PyNone) = PyStr("success")
       /\ Truthy(DictGet(response_page, "results", PyList(<<>>)))
    THEN pages_fetched + 1 ELSE pages_fetched

\* Mutant of line 230: the generator never counts a page.
ResumedFetchedStuck == pages_fetched

\* Line 230, executed when the generator is resumed after a yield.
ResumedFetched == IF genpc = "yielded" THEN pages_fetched + 1 ELSE pages_fetched

\* Mutant of line 232: a response whose status is not success ends the
\* sequence too.
ExhaustedOrFailed ==
    /\ genpc = "yielded"
    /\ \/ ~Truthy(ResumedPage)
       \/ DictGet(response_page, "status", PyNone) # PyStr("success")

\* Line 232: `if not page` after a yield.
Exhausted == genpc = "yielded" /\ ~Truthy(ResumedPage)

\* Mutants of the budget check: off by one, and blind to fetch_all_pages.
BudgetReachedLate(fetch_all_pages, num_pages, fetched) ==
    ~fetch_all_pages /\ fetched > num_pages

BudgetReachedAlways(fetch_all_pages, num_pages, fetched) == fetched >= num_pages

\* Line 221: the budget check at the head of the loop.
BudgetReached(fetch_all_pages, num_pages, fetched) ==
    ~fetch_all_pages /\ fetched >= num_pages

\* The generator returns: the for loop of run() ends.
GenReturn(record) ==
    /\ UNCHANGED harness
    /\ genpc' = "done"
    /\ page' = ResumedPage
    /\ pages_fetched' = ResumedFetched
    /\ log' = Append(log, record)
    /\ pc' = "stats"
    /\ UNCHANGED <<exc, config, response_page, idx, total_articles_processed,
                   earliest_article_date, pbar, es_docs, index_calls>>

\* Lines 232-234: the response yielded last carried no next-cursor.
PullExhausted ==
    /\ pc = "pull"
    /\ Exhausted
    /\ GenReturn("info: no more pages")
    /\ UNCHANGED served

\* Lines 221-223: the page budget is used up.
PullBudget ==
    /\ pc = "pull"
    /\ ~Exhausted
    /\ BudgetReached(config.fetch_all_pages, config.num_pages, ResumedFetched)
    /\ GenReturn("info: page limit reached")
    /\ UNCHANGED served

CanRequest ==
    /\ pc = "pull"
    /\ ~Exhausted
    /\ ~BudgetReached(config.fetch_all_pages, config.num_pages, ResumedFetched)

\* Mutant of the handler: it logs and lets the exception leave the generator.
FetchHandlerReraise(e) ==
    /\ genpc' = "done"
    /\ page' = ResumedPage
    /\ pages_fetched' = ResumedFetched
    /\ log' = log \o <<"error: api error", CriticalRecord(e)>>
    /\ pc' = "failed"
    /\ exc' = e
    /\ UNCHANGED harness
    /\ UNCHANGED <<config, response_page, idx, total_articles_processed,
                   earliest_article_date, pbar, es_docs, index_calls>>

\* Lines 226, 235-241: the request raises; the handler logs and breaks.
FetchHandler(e) ==
    GenReturn(IF e = "NewsdataException" THEN "error: api error"
              ELSE "error: unexpected fetch error")

PullError(e) ==
    /\ CanRequest
    /\ served' = Append(served, [kind |-> "raise", exc |-> e])
    /\ FetchHandler(e)

\* The instant an article is published at, 0 when it carries no publish
\* date in the format of line 270.
PubInstant(article) ==
    LET pub_date_str == DictGet(article, "pubDate", PyNone) IN
    IF Truthy(pub_date_str) /\ Strptime(pub_date_str).t = "datetime"
    THEN Strptime(pub_date_str).v ELSE 0

\* What is recorded of a response line 226 returned: its status, the number
\* of its articles and their publish instants, whether it carries a
\* next-cursor.
ServedResponse(response) ==
    [kind |-> "response",
     success |-> DictGet(response, "status", PyNone) = PyStr("success"),
     n |-> Len(response["results"].v),
     dates |-> [j \in 1..Len(response["results"].v) |->
                    PubInstant(response["results"].v[j])],
     cursor |-> Truthy(DictGet(response, "nextPage", PyNone))]

\* Mutant of lines 227-234: the next-cursor is tested before the yield, so a
\* response without one ends the sequence undelivered.
PullPageTestFirst(response) ==
    /\ UNCHANGED harness
    /\ CanRequest
    /\ served' = Append(served, ServedResponse(response))
    /\ page' = ResumedPage
    /\ pages_fetched' = ResumedFetched
    /\ IF Truthy(DictGet(response, "nextPage", PyNone))
       THEN genpc' = "yielded" /\ response_page' = response /\ pc' = "page"
            /\ UNCHANGED log
       ELSE genpc' = "done" /\ UNCHANGED response_page /\ pc' = "stats"
            /\ log' = Append(log, "info: no more pages")
    /\ UNCHANGED <<exc, config, idx, total_articles_processed, earliest_article_date,
                   pbar, es_docs, index_calls>>

\* Lines 226-227: the request returns and the response is yielded to run().
PullPage(response) ==
    /\ UNCHANGED harness
    /\ CanRequest
    /\ served' = Append(served, ServedResponse(response))
    /\ genpc' = "yielded"
    /\ page' = ResumedPage
    /\ pages_fetched' = ResumedFetched
    /\ response_page' = response
    /\ pc' = "page"
    /\ UNCHANGED <<exc, config, idx, total_articles_processed, earliest_article_date,
                   pbar, log, es_docs, index_calls>>

\* ------------------------------------------------- run(), per page
Results == DictGet(response_page, "results", PyList(<<>>))

\* Mutant of the status test: every page is taken for a success.
IsSuccessAlways(response) == TRUE

\* Line 257: response_page.get('status') == 'success'
IsSuccess(response) == DictGet(response, "status", PyNone) = PyStr("success")

\* Lines 257-261: a success page without articles; `continue` goes straight
\* back to the for statement.
PageEmpty ==
    /\ UNCHANGED harness
    /\ pc = "page"
    /\ IsSuccess(response_page)
    /\ ~Truthy(Results)
    /\ log' = Append(log, "info: 0 articles")
    /\ pc' = "pull"
    /\ UNCHANGED <<exc, config, genpc, page, pages_fetched, response_page, idx,
                   total_articles_processed, earliest_article_date, pbar, es_docs,
                   index_calls, served>>

\* Mutant of line 263: the loop takes up the page at its last article.
PageBeginAtLast ==
    /\ UNCHANGED harness
    /\ pc = "page"
    /\ IsSuccess(response_page)
    /\ Truthy(Results)
    /\ idx' = Len(Results.v)
    /\ pc' = "article"
    /\ UNCHANGED <<exc, config, genpc, page, pages_fetched, response_page,
                   total_articles_processed, earliest_article_date, pbar, log, es_docs,
                   index_calls, served>>

\* Lines 257-263: a success page with articles; the article loop starts.
PageBegin ==
    /\ UNCHANGED harness
    /\ pc = "page"
    /\ IsSuccess(response_page)
    /\ Truthy(Results)
    /\ idx' = 1
    /\ pc' = "article"
    /\ UNCHANGED <<exc, config, genpc, page, pages_fetched, response_page,
                   total_articles_processed, earliest_article_date, pbar, log, es_docs,
                   index_calls, served>>

\* Lines 275-276: a page whose status is not success is logged and skipped.
PageFailed ==
    /\ UNCHANGED harness
    /\ pc = "page"
    /\ ~IsSuccess(response_page)
    /\ log' = Append(log, "error: response failure")
    /\ pc' = "update"
    /\ UNCHANGED <<exc, config, genpc, page, pages_fetched, response_page, idx,
                   total_articles_processed, earliest_article_date, pbar, es_docs,
                   index_calls, served>>

\* Line 278: pbar.update(1), then back to the for statement.
UpdateProgress ==
    /\ UNCHANGED harness
    /\ pc = "update"
    /\ pbar' = pbar + 1
    /\ pc' = "pull"
    /\ UNCHANGED <<exc, config, genpc, page, pages_fetched, response_page, idx,
                   total_articles_processed, earliest_article_date, log, es_docs,
                   index_calls, served>>

\* ---------------------------------------------- run(), per article
\* Line 138: the exceptions index_document catches.
IndexCaught(outcome) == outcome = "ApiError"

\* Mutant of the date tracking: the comparison is turned round.
TrackLatest(earliest, document) ==
    LET pub_date_str == DictGet(document, "pubDate", PyNone) IN
    IF ~Truthy(pub_date_str) THEN earliest
    ELSE LET current_date == Strptime(pub_date_str) IN
         IF current_date.t = "raise" THEN current_date
         ELSE IF earliest = PyNone \/ current_date.v > earliest.v
              THEN current_date ELSE earliest

\* Mutant of the date tracking: the first date seen is kept.
TrackFirst(earliest, document) ==
    LET pub_date_str == DictGet(document, "pubDate", PyNone) IN
    IF ~Truthy(pub_date_str) THEN earliest
    ELSE LET current_date == Strptime(pub_date_str) IN
         IF current_date.t = "raise" THEN current_date
         ELSE IF earliest = PyNone THEN current_date ELSE earliest

\* Lines 268-272: the earliest date after this article, or the exception
\* strptime raises.
TrackEarliest(earliest, document) ==
    LET pub_date_str == DictGet(document, "pubDate", PyNone) IN
    IF ~Truthy(pub_date_str) THEN earliest
    ELSE LET current_date == Strptime(pub_date_str) IN
         IF current_date.t = "raise" THEN current_date
         ELSE IF earliest = PyNone \/ current_date.v < earliest.v
              THEN current_date ELSE earliest

\* Mutant of line 274: the increment is left out.
CountedNot(n) == n

\* Line 274: total_articles_processed += 1
Counted(n) == n + 1

\* Lines 263-274: one pass of the article loop.  `outcome` is what
\* es_client.index() does for this document.
ProcessArticle(outcome) ==
    /\ UNCHANGED harness
    /\ pc = "article"
    /\ LET article == Results.v[idx]
           transformed == transform_news_article(article, Now)
       IN
       IF transformed.t = "raise"
       THEN /\ pc' = "failed"
            /\ exc' = transformed.v
            /\ log' = Append(log, CriticalRecord(transformed.v))
            /\ UNCHANGED <<response_page, idx, total_articles_processed,
                           earliest_article_date, es_docs, index_calls>>
       ELSE
       LET document == transformed.v
           mutated == DictSet(response_page, "results",
                              PyList([Results.v EXCEPT ![idx] = document]))
           log1 == IF outcome # "ok" /\ IndexCaught(outcome)
                   THEN Append(log, "error: index failed") ELSE log
           tracked == TrackEarliest(earliest_article_date, document)
       IN
       /\ response_page' = mutated
       /\ index_calls' = index_calls + 1
       /\ es_docs' = IF outcome = "ok" THEN Append(es_docs, document) ELSE es_docs
       /\ IF outcome # "ok" /\ ~IndexCaught(outcome)
          THEN /\ pc' = "failed"
               /\ exc' = outcome
               /\ log' = Append(log, CriticalRecord(outcome))
               /\ UNCHANGED <<idx, total_articles_processed, earliest_article_date>>
          ELSE IF tracked.t = "raise"
          THEN /\ pc' = "failed"
               /\ exc' = tracked.v
               /\ log' = Append(log1, CriticalRecord(tracked.v))
               /\ UNCHANGED <<idx, total_articles_processed, earliest_article_date>>
          ELSE /\ earliest_article_date' = tracked
               /\ total_articles_processed' = Counted(total_articles_processed)
               /\ log' = log1
               /\ exc' = exc
               /\ IF idx < Len(Results.v)
                  THEN idx' = idx + 1 /\ pc' = "article"
                  ELSE idx' = idx /\ pc' = "update"
    /\ UNCHANGED <<config, genpc, page, pages_fetched, pbar, served>>

\* Lines 280-283: the final statistics.
Finish ==
    /\ UNCHANGED harness
    /\ pc = "stats"
    /\ log' = log \o <<"info: pipeline finished", "info: total articles processed">>
                  \o (IF Truthy(earliest_article_date)
                      THEN <<"info: earliest article">> ELSE <<>>)
    /\ pc' = "finished"
    /\ UNCHANGED <<exc, config, genpc, page, pages_fetched, response_page, idx,
                   total_articles_processed, earliest_article_date, pbar, es_docs,
                   index_calls, served>>

\* ------------------------------------------------------ specification
Init ==
    /\ pc = "main"
    /\ exc = "none"
    /\ config = NoConfig
    /\ genpc = "none"
    /\ page = PyNone
    /\ pages_fetched = 0
    /\ response_page = NoResponse
    /\ idx = 0
    /\ total_articles_processed = 0
    /\ earliest_article_date = PyNone
    /\ pbar = 0
    /\ log = <<>>
    /\ es_docs = <<>>
    /\ index_calls = 0
    /\ served = <<>>
    /\ script = <<>>
    /\ t_input = EmptyDict
    /\ t_article = EmptyDict
    /\ t_result = PyNone
    /\ pycountry = PycountryAlpha2

Next ==
    \/ \E credentials \in BOOLEAN, arg \in NumPagesArgs : LoadConfig(credentials, arg)
    \/ \E outcome \in ConnectOutcomes : ConnectES(outcome)
    \/ RunStart
    \/ PullExhausted
    \/ PullBudget
    \/ Requests < MaxRequests /\ \E e \in ApiExceptions : PullError(e)
    \/ /\ Requests < MaxRequests
       /\ \E response \in Responses(MaxFeed - FeedUsed(served)) : PullPage(response)
    \/ PageEmpty
    \/ PageBegin
    \/ PageFailed
    \/ UpdateProgress
    \/ \E outcome \in IndexOutcomes : ProcessArticle(outcome)
    \/ Finish

Spec == Init /\ [][Next]_vars

\* ------------------------------------------- calls of the transformer
\* Raw articles given to transform_news_article on its own: every optional
\* field missing, null, degenerate or filled.
OptionalField(key, values) == {EmptyDict} \cup {key :> v : v \in values}

CountryValues ==
    {PyNone, PyList(<<>>), PyList(<<PyStr("Ivory Coast")>>),
     PyList(<<PyStr("France")>>), PyList(<<PyStr("Wakanda")>>),
     PyList(<<PyStr("RUSSIA")>>), PyList(<<PyStr("Turkey")>>),
     PyList(<<PyFloat(5000000)>>)}

SentimentValues ==
    {PyNone, PyStr("positive"), PyStr("negative"), PyStr("neutral"), PyStr("mixed")}

SentimentStatsValues ==
    {PyNone,
     PyDict(EmptyDict),
     PyDict("positive" :> PyFloat(123456)),
     PyDict("mixed" :> PyFloat(500000)),
     PyDict(("positive" :> PyFloat(123456)) @@ ("negative" :> PyFloat(500000))
            @@ ("neutral" :> PyFloat(376544)))}

RawArticles ==
    {Title @@ c @@ l @@ m @@ d :
        c \in OptionalField("country", CountryValues),
        l \in OptionalField("sentiment", SentimentValues),
        m \in OptionalField("sentiment_stats", SentimentStatsValues),
        d \in OptionalField("pubDate", {PyStr(DateTexts[1])})}

\* The caller passes a raw article to transform_news_article.
TransformCall ==
    /\ pc = "transform"
    /\ LET r == transform_news_article(t_article, Now) IN
       /\ t_result' = r
       /\ t_article' = IF r.t = "raise" THEN t_article ELSE r.v
    /\ pc' = "transformed"
    /\ UNCHANGED <<exc, config, genpc, page, pages_fetched, response_page, idx,
                   total_articles_processed, earliest_article_date, pbar, log, es_docs,
                   index_calls, served, script, t_input, pycountry>>

InitTransform ==
    /\ pc = "transform"
    /\ t_input \in RawArticles
    /\ t_article = t_input
    /\ t_result = PyNone
    /\ exc = "none"
    /\ config = NoConfig
    /\ genpc = "none"
    /\ page = PyNone
    /\ pages_fetched = 0
    /\ response_page = NoResponse
    /\ idx = 0
    /\ total_articles_processed = 0
    /\ earliest_article_date = PyNone
    /\ pbar = 0
    /\ log = <<>>
    /\ es_docs = <<>>
    /\ index_calls = 0
    /\ served = <<>>
    /\ script = <<>>
    /\ pycountry \in PycountryTables

NextTransform == TransformCall

SpecTransform == InitTransform /\ [][NextTransform]_vars

\* ------------------------------------------------ the scripted upstream
\* A stub upstream client that returns three given pages in order: page 1
\* a success with 2 articles and next-cursor "a", page 2 a failure status
\* with or without a next-cursor, page 3 a success with 1 article and no
\* next-cursor.  Each article carries a well-formed publish date.
Dated(n) == Title @@ ("pubDate" :> PyStr(DateTexts[n]))

ScriptPage1(d1, d2) ==
    ("status" :> PyStr("success")) @@ ("results" :> PyList(<<Dated(d1), Dated(d2)>>))
    @@ ("nextPage" :> PyStr("a"))

ScriptPage2(c) ==
    ("status" :> PyStr("error")) @@ ("results" :> PyList(<<Title>>)) @@ c

ScriptPage3(d3) ==
    ("status" :> PyStr("success")) @@ ("results" :> PyList(<<Dated(d3)>>))

Scripts ==
    {<<ScriptPage1(d1, d2), ScriptPage2(c), ScriptPage3(d3)>> :
        d1 \in 1..MaxDate, d2 \in 1..MaxDate, d3 \in 1..MaxDate, c \in Cursors}

\* Configurations whose budget allows 3 pages.
ScriptConfigs ==
    {[t |-> "Config", fetch_all_pages |-> TRUE, num_pages |-> 0]}
    \cup {[t |-> "Config", fetch_all_pages |-> FALSE, num_pages |-> n] :
            n \in 3..MaxPages + 2}

\* main() has loaded the configuration and connected to the datastore.
InitScripted ==
    /\ pc = "run"
    /\ config \in ScriptConfigs
    /\ script \in Scripts
    /\ log = <<"info: connected">>
    /\ exc = "none"
    /\ genpc = "none"
    /\ page = PyNone
    /\ pages_fetched = 0
    /\ response_page = NoResponse
    /\ idx = 0
    /\ total_articles_processed = 0
    /\ earliest_article_date = PyNone
    /\ pbar = 0
    /\ es_docs = <<>>
    /\ index_calls = 0
    /\ served = <<>>
    /\ t_input = EmptyDict
    /\ t_article = EmptyDict
    /\ t_result = PyNone
    /\ pycountry = PycountryAlpha2

NextScripted ==
    \/ RunStart
    \/ PullExhausted
    \/ Requests < Len(script) /\ PullPage(script[Requests + 1])
    \/ PageBegin
    \/ PageFailed
    \/ UpdateProgress
    \/ \E outcome \in IndexOutcomes : ProcessArticle(outcome)
    \/ Finish

SpecScripted == InitScripted /\ [][NextScripted]_vars

\* ============================================================ claims
Bounded == config.t = "Config" /\ ~config.fetch_all_pages
Unbounded == config.t = "Config" /\ config.fetch_all_pages

\* An upstream request raised.
Raised == \E i \in 1..Len(served) : served[i].kind = "raise"

\* Every upstream request so far returned a response carrying a next-cursor.
AllCursors == \A i \in 1..Len(served) : served[i].kind = "response" /\ served[i].cursor

\* Articles in the success pages the fetcher has yielded.
ArticlesYielded == FeedUsed(served)

\* ---- C1
\* C1: with a bounded page budget N >= 0 the fetcher never issues more than
\* N upstream requests, and when the generator has returned after responses
\* that all carried a next-cursor, with no request raising, it has issued
\* exactly N.
C1_BudgetBoundsRequests ==
    (Bounded /\ config.num_pages >= 0) =>
        /\ Requests <= config.num_pages
        /\ (genpc = "done" /\ AllCursors => Requests = config.num_pages)

\* The budget of 2 is used up by 2 requests and the 2nd response still
\* carried a next-cursor.
C1_Witness ==
    /\ Bounded /\ config.num_pages = 2
    /\ genpc = "done" /\ Requests = 2 /\ AllCursors

\* ---- C2
\* C2: with an unbounded budget a request is only ever issued after
\* responses that all carried a next-cursor, and when no request raised the
\* generator returns only after a response without a next-cursor, however
\* many pages beyond num_pages that takes.
C2_UnboundedStopsAtMissingCursor ==
    Unbounded =>
        /\ \A i \in 1..Len(served) - 1 :
              served[i].kind = "response" /\ served[i].cursor
        /\ (genpc = "done" /\ ~Raised =>
              /\ Requests >= 1
              /\ ~served[Requests].cursor)

\* An unbounded run went past num_pages and stopped at the first response
\* without a next-cursor.
C2_Witness ==
    /\ Unbounded /\ genpc = "done" /\ ~Raised
    /\ Requests = 2 /\ Requests > config.num_pages
    /\ served[1].cursor /\ ~served[2].cursor

\* ---- C3
\* C3: once an upstream request has raised, the error is logged, that
\* request stays the last one, no exception reaches run(), which goes on to
\* its final statistics; every article of the success pages yielded before
\* is counted and was handed to the datastore, and the finished run has
\* logged the total.
C3_FetchErrorEndsSequenceCleanly ==
    Raised =>
        /\ served[Requests].kind = "raise"
        /\ \A i \in 1..Requests - 1 : served[i].kind = "response"
        /\ genpc = "done"
        /\ pc \in {"stats", "finished"}
        /\ exc = "none"
        /\ Count(log, "error: api error") + Count(log, "error: unexpected fetch error") = 1
        /\ total_articles_processed = ArticlesYielded
        /\ index_calls = ArticlesYielded
        /\ Len(es_docs) + Count(log, "error: index failed") = ArticlesYielded
        /\ (pc = "finished" => Count(log, "info: total articles processed") = 1)

\* A run that stored an article, then met a raising request, and finished.
C3_Witness ==
    /\ Raised /\ pc = "finished"
    /\ total_articles_processed >= 1 /\ Len(es_docs) >= 1

\* ---- C4
\* C4: a yielded page whose status is not success is skipped: the step that
\* handles it changes neither the counter, the earliest date, the datastore
\* nor the page, raises nothing, and run() then updates the progress and
\* pulls the next page.
C4_FailedPageIsSkipped ==
    [][/\ (pc = "page" /\ ~(DictGet(response_page, "status", PyNone) = PyStr("success")))
          => /\ pc' = "update"
             /\ exc' = "none"
             /\ total_articles_processed' = total_articles_processed
             /\ earliest_article_date' = earliest_article_date
             /\ es_docs' = es_docs
             /\ index_calls' = index_calls
             /\ response_page' = response_page
       /\ (pc = "update" => pc' = "pull")]_vars

\* run() is back at the for statement after a failure page that came after
\* a stored article.
C4_Witness ==
    /\ pc = "pull" /\ genpc = "yielded"
    /\ ~(DictGet(response_page, "status", PyNone) = PyStr("success"))
    /\ Count(log, "error: response failure") = 1
    /\ total_articles_processed >= 1

\* ---- C5
\* C5: when the datastore write of an article fails, the article is still
\* counted and the loop goes on to the next article or page.
C5_StoreFailureDoesNotStopSiblings ==
    [][(pc = "article" /\ index_calls' = index_calls + 1 /\ es_docs' = es_docs)
          => /\ total_articles_processed' = total_articles_processed + 1
             /\ pc' \in {"article", "update"}]_vars

\* ---- C6
\* C6: an article whose publish date is present but does not parse, and
\* whose index_document call returned, is counted, leaves the earliest date
\* alone, and the loop goes on without an exception.
C6_BadDateIsSkipped ==
    [][(/\ pc = "article"
        /\ LET pub == DictGet(Results.v[idx], "pubDate", PyNone)
           IN Truthy(pub) /\ Strptime(pub).t = "raise"
        /\ index_calls' = index_calls + 1
        /\ exc' \notin IndexOutcomes)
          => /\ total_articles_processed' = total_articles_processed + 1
             /\ earliest_article_date' = earliest_article_date
             /\ exc' = "none"
             /\ pc' \in {"article", "update"}]_vars

\* ---- C10
\* C10: index_document never raises past its boundary: whatever the
\* client's index call does, the step that calls it leaves run() with no
\* exception of the datastore client.
C10_IndexDocumentNeverRaises ==
    [][index_calls' = index_calls + 1 => exc' \notin IndexOutcomes]_vars

\* ---- C8
\* C8: transform_news_article returns without raising whichever optional
\* field is missing or degenerate; for a country that is absent, an empty
\* list or null the country code is None, and without a sentiment or
\* without sentiment_stats no flattened sentiment field is added.
C8_TransformIsTotal ==
    pc = "transformed" =>
        /\ t_result.t # "raise"
        /\ (DictGet(t_input, "country", PyNone) \in {PyNone, PyList(<<>>)}
              => t_result.v["country_code"] = PyNone)
        /\ ("sentiment" \notin DOMAIN t_input \/ "sentiment_stats" \notin DOMAIN t_input
              => DOMAIN t_result.v \cap ScoreKeys = {})

\* ---- C9
\* C9: the record transform_news_article returns carries the three
\* flattened sentiment fields if and only if the sentiment label is one of
\* positive, negative, neutral and a sentiment_stats mapping is present in
\* the input, whatever keys that mapping holds; otherwise it carries none
\* of the three.
C9_FlattenedIffLabelAndMapping ==
    (pc = "transformed" /\ t_result.t # "raise") =>
        LET label == DictGet(t_input, "sentiment", PyNone)
            stats == DictGet(t_input, "sentiment_stats", PyNone)
            expected == /\ label \in {PyStr("positive"), PyStr("negative"), PyStr("neutral")}
                        /\ stats.t = "dict"
        IN IF expected
           THEN ScoreKeys \subseteq DOMAIN t_result.v
           ELSE DOMAIN t_result.v \cap ScoreKeys = {}

\* ---- C7
\* The publish dates of the 3 articles of pages 1 and 3 of the script.
ScriptDates ==
    UNION {{Strptime(script[i]["results"].v[j]["pubDate"]).v :
                j \in 1..Len(script[i]["results"].v)} : i \in {1, 3}}

ScriptMin == CHOOSE d \in ScriptDates : \A e \in ScriptDates : d <= e

ScriptExpected ==
    /\ total_articles_processed = 3
    /\ Count(log, "error: response failure") = 1
    /\ earliest_article_date = PyDatetime(ScriptMin)

\* C7 as stated: with the three scripted pages and a budget that allows 3
\* pages, a run that completes has processed 3 articles, logged one page
\* skip, and holds the minimum of the 3 publish dates.
C7_ScenarioAsStated == pc = "finished" => ScriptExpected

\* C7 as amended: the same, when the failure page 2 itself carries a
\* next-cursor.
C7_ScenarioWithCursorOnFailurePage ==
    (pc = "finished" /\ Truthy(DictGet(script[2], "nextPage", PyNone))) => ScriptExpected

\* The scripted run completed after all 3 pages, with differing dates.
C7_Witness ==
    /\ pc = "finished" /\ Requests = 3
    /\ Truthy(DictGet(script[2], "nextPage", PyNone))
    /\ total_articles_processed = 3
    /\ Cardinality(ScriptDates) >= 2

\* ------------------------------------------------------------- C11
\* The name transform_news_article handed to get_iso_code: the first element
\* of the raw article's country list, when the call returned and the name
\* was truthy.
IsoCalled ==
    /\ pc = "transformed" /\ t_result.t = "dict"
    /\ "country" \in DOMAIN t_input
    /\ t_input["country"].t = "list" /\ Len(t_input["country"].v) > 0
    /\ Truthy(t_input["country"].v[1])

IsoName == t_input["country"].v[1]

IsoCode == t_result.v["country_code"]

\* C11: get_iso_code answers from the lower-cased name: the code of
\* COUNTRY_FALLBACKS when the lower-cased name is one of its keys, whatever
\* the library's table holds for it ("Ivory Coast" gives CI); else the
\* library's alpha-2 code when the library knows the name; else None
\* ("Wakanda").  A name that is not a string gives None.  No case raises.
C11_IsoCodeByPriority ==
    IsoCalled =>
        /\ IsoName.t # "str" => IsoCode = PyNone
        /\ IsoName = PyStr("Ivory Coast") => IsoCode = PyStr("CI")
        /\ IsoName = PyStr("RUSSIA") => IsoCode = PyStr("RU")
        /\ IsoName = PyStr("Turkey") => IsoCode = PyStr("TR")
        /\ IsoName = PyStr("France") => IsoCode = PyStr("FR")
        /\ IsoName = PyStr("Wakanda") => IsoCode = PyNone
        /\ IsoName.t = "str" =>
             LET lower == StrLower(IsoName.v) IN
             /\ lower \in DOMAIN COUNTRY_FALLBACKS
                    => IsoCode = PyStr(COUNTRY_FALLBACKS[lower])
             /\ lower \notin DOMAIN COUNTRY_FALLBACKS /\ lower \in DOMAIN pycountry
                    => IsoCode = PyStr(pycountry[lower])
             /\ lower \notin DOMAIN COUNTRY_FALLBACKS /\ lower \notin DOMAIN pycountry
                    => IsoCode = PyNone

\* "Ivory Coast" was looked up while the library holds another code for it.
C11_Witness ==
    /\ IsoCalled /\ IsoName = PyStr("Ivory Coast")
    /\ "ivory coast" \in DOMAIN pycountry /\ pycountry["ivory coast"] # "CI"
    /\ IsoCode = PyStr("CI")

\* ------------------------------------------------------------- C12
\* Runs without end need a finite record.  In a run with fetch_all_pages
\* nothing reads pages_fetched (line 221 stops at `not fetch_all_pages`),
\* and served, log and pbar are records nothing reads.  When the record
\* holds MaxRequests pages and the generator is about to request another
\* one, the oldest page leaves the record.
ForgetPage ==
    /\ config.fetch_all_pages
    /\ CanRequest
    /\ genpc = "yielded"
    /\ Requests = MaxRequests
    /\ Head(served).kind = "response" /\ FeedUsed(<<Head(served)>>) = 0
    /\ served' = Tail(served)
    /\ log' = SubSeq(log, 1, 2) \o SubSeq(log, 4, Len(log))
    /\ pbar' = pbar - (IF Head(served).success THEN 0 ELSE 1)
    /\ pages_fetched' = pages_fetched - 1
    /\ UNCHANGED harness
    /\ UNCHANGED <<pc, exc, config, genpc, page, response_page, idx,
                   total_articles_processed, earliest_article_date, es_docs,
                   index_calls>>

\* The configurations from_args builds for --num_pages all, 0, 1, ...
LiveConfigs ==
    {from_args(TRUE, ArgWord("all"))} \cup {from_args(TRUE, ArgInt(n)) : n \in 0..MaxPages}

\* main() has loaded the configuration and connected to the datastore.
InitLive ==
    /\ pc = "run"
    /\ config \in LiveConfigs
    /\ log = <<"info: connected">>
    /\ exc = "none"
    /\ genpc = "none"
    /\ page = PyNone
    /\ pages_fetched = 0
    /\ response_page = NoResponse
    /\ idx = 0
    /\ total_articles_processed = 0
    /\ earliest_article_date = PyNone
    /\ pbar = 0
    /\ es_docs = <<>>
    /\ index_calls = 0
    /\ served = <<>>
    /\ script = <<>>
    /\ t_input = EmptyDict
    /\ t_article = EmptyDict
    /\ t_result = PyNone
    /\ pycountry = PycountryAlpha2

\* The run against an upstream that serves pages without articles: empty
\* success pages and failure pages, with or without a next-cursor, or an
\* exception, as long as it is asked.
NextLive ==
    \/ RunStart
    \/ PullExhausted
    \/ PullBudget
    \/ Requests < MaxRequests /\ \E e \in ApiExceptions : PullError(e)
    \/ Requests < MaxRequests /\ \E response \in Responses(0) : PullPage(response)
    \/ PageEmpty
    \/ PageFailed
    \/ UpdateProgress
    \/ Finish
    \/ ForgetPage

\* run() is one sequential thread and every upstream request returns or
\* raises (the client retries a bounded number of times): a step that can be
\* taken is taken.
SpecLive == InitLive /\ [][NextLive]_vars /\ WF_vars(NextLive)

StartupFailed == pc = "failed" /\ genpc = "none"

\* C13: when a credential is missing or the initial datastore connection
\* fails, no upstream request and no store call is ever issued; an upstream
\* request or a store call is only issued after the configuration was built
\* and the connection check succeeded.
C13_StartupFailureIssuesNoCall ==
    /\ StartupFailed =>
         /\ Requests = 0 /\ index_calls = 0 /\ es_docs = <<>>
         /\ ~ENABLED Next
    /\ (Requests > 0 \/ index_calls > 0 \/ genpc # "none") =>
         /\ config.t = "Config"
         /\ Len(log) > 0 /\ log[1] = "info: connected"

\* The connection check failed after the configuration was loaded.
C13_Witness ==
    /\ StartupFailed /\ config.t = "Config" /\ exc = "ConnectionError"
    /\ Requests = 0 /\ index_calls = 0

\* ------------------------------------------------------------- C14
\* C14: every Config that from_args builds has fetch_all_pages true or
\* num_pages positive.
C14_BudgetUnboundedOrPositive ==
    config.t = "Config" => config.fetch_all_pages \/ config.num_pages > 0

\* ------------------------------------------------------------- C15
\* C15: transform_news_article leaves the raw article it was given as it
\* was; the record it returns is a separate one in which every input field
\* other than those it derives is untouched.
C15_TransformLeavesArgumentAlone ==
    (pc = "transformed" /\ t_result.t = "dict") =>
        /\ t_article = t_input
        /\ \A k \in DOMAIN t_input \ {"country", "sentiment_stats"} :
              k \in DOMAIN t_result.v /\ t_result.v[k] = t_input[k]

\* ------------------------------------------------------------- C17
\* Responses the generator has yielded to run().
PagesYielded == Cardinality({i \in 1..Len(served) : served[i].kind = "response"})

\* C17: when run() has finished, pbar.update was called once for every page
\* yielded, whether a success with articles, an empty success or a failure.
C17_ProgressOncePerPage == pc = "finished" => pbar = PagesYielded

\* ------------------------------------------------------------- C16
\* The generator returned and no request had raised.
EndedWithoutRaise == genpc = "done" /\ ~Raised

BudgetUsedUp == Bounded /\ Requests >= config.num_pages

\* C16 as stated: no upstream request follows a response whose status is
\* not success, whatever its next-cursor and the budget; and the sequence
\* does not end after an empty success response that carries a next-cursor
\* while budget remains.
C16_FailureStatusEndsSequence ==
    /\ \A i \in 1..(Len(served) - 1) : served[i].kind = "response" => served[i].success
    /\ (EndedWithoutRaise /\ Requests > 0 /\ served[Requests].success
            /\ served[Requests].n = 0 /\ served[Requests].cursor) => BudgetUsedUp

\* C16 as amended: the status of a response plays no part in ending the
\* sequence.  A request follows a response, of either status, only when the
\* response carried a next-cursor; and the sequence does not end after a
\* response that carries a next-cursor, be it a failure or an empty success,
\* while budget remains.
C16_OnlyCursorAndBudgetEndSequence ==
    /\ \A i \in 1..(Len(served) - 1) : served[i].kind = "response" /\ served[i].cursor
    /\ EndedWithoutRaise =>
          \/ Requests > 0 /\ ~served[Requests].cursor
          \/ BudgetUsedUp

\* A request was issued after a failure response that carried a next-cursor.
C16_Witness ==
    /\ Requests = 2
    /\ served[1].kind = "response" /\ ~served[1].success /\ served[1].cursor
    /\ served[2].kind = "response" /\ served[2].success /\ served[2].n = 0
    /\ served[2].cursor /\ EndedWithoutRaise

\* ------------------------------------------------------------- C18
\* Pages whose handling run() has completed: each ends with pbar.update(1)
\* or, for an empty success page, with the record of line 260.
PagesHandled == pbar + Count(log, "info: 0 articles")

\* C18: every response the upstream returned is yielded before the
\* generator evaluates a stop condition on it.  While run() handles a page
\* the generator is suspended at the yield and has not yet counted that page
\* or read its next-cursor; and when the sequence has ended, run() has
\* handled as many pages as requests returned, the last one included, and
\* has processed every article of the success pages.
C18_LastPageDeliveredBeforeStop ==
    /\ pc \in {"page", "article", "update"} =>
          /\ genpc = "yielded"
          /\ pages_fetched = PagesYielded - 1
          /\ PagesHandled = PagesYielded - 1
    /\ (genpc = "done" /\ pc \in {"stats", "finished"}) =>
          /\ PagesHandled = PagesYielded
          /\ total_articles_processed = ArticlesYielded
          /\ index_calls = ArticlesYielded

\* The sequence ended on a last page without next-cursor, whose articles
\* were processed.
C18_Witness ==
    /\ genpc = "done" /\ pc = "finished" /\ Requests = 2 /\ ~Raised
    /\ ~served[2].cursor /\ served[2].success /\ served[2].n > 0
    /\ total_articles_processed = ArticlesYielded /\ PagesHandled = 2

\* ------------------------------------------------------------- C19
\* Articles of the page in hand for which index_document was already called.
StoredOfPage == index_calls - FeedUsed(SubSeq(served, 1, Len(served) - 1))

\* C19: the steps are strictly sequential.  An upstream request is issued
\* only when every article of the pages yielded so far was transformed,
\* stored and counted.  A store call is for the article at the position
\* that follows the articles of the page already stored, so a page is
\* handled in array order, one article per step, and no request is issued
\* in a step that stores; a document the datastore accepts is the transform
\* of that article.
C19_StrictlySequential ==
    [][/\ Requests' > Requests =>
            /\ Requests' = Requests + 1
            /\ index_calls = ArticlesYielded
            /\ total_articles_processed = ArticlesYielded
            /\ index_calls' = index_calls
       /\ index_calls' > index_calls =>
            /\ index_calls' = index_calls + 1
            /\ Requests' = Requests
            /\ pc = "article" /\ idx = StoredOfPage + 1 /\ idx <= Len(Results.v)
            /\ total_articles_processed = index_calls
            /\ Len(es_docs') > Len(es_docs) =>
                  es_docs' = Append(es_docs, transform_news_article(Results.v[idx], Now).v)
      ]_vars

\* The second page was requested after both articles of the first were
\* stored, in their order.
C19_Witness ==
    /\ Requests = 2 /\ served[1].kind = "response" /\ served[1].success
    /\ served[1].n = 2 /\ index_calls = 2 /\ Len(es_docs) = 2
    /\ es_docs[1] # es_docs[2]

\* ------------------------------------------------------------- C20
\* The publish instants of the articles of the success pages yielded so
\* far, in the order run() takes them up.
RECURSIVE DatesYielded(_)
DatesYielded(s) ==
    IF s = <<>> THEN <<>>
    ELSE (IF Head(s).kind = "response" /\ Head(s).success THEN Head(s).dates ELSE <<>>)
         \o DatesYielded(Tail(s))

\* The publish instants of the articles processed so far that carried one.
ProcessedDates ==
    {DatesYielded(served)[j] : j \in 1..total_articles_processed} \ {0}

\* C20: at every point of a run earliest_article_date is the minimum of the
\* publish dates of the articles processed so far that carried one, and
\* None exactly when none of them carried one.  With that it is left alone
\* by failure pages, empty pages and articles without a date, which add no
\* date to that set, and it never increases, since the set only grows.
C20_EarliestIsMinimumSoFar ==
    /\ total_articles_processed <= Len(DatesYielded(served))
    /\ earliest_article_date =
          IF ProcessedDates = {} THEN PyNone
          ELSE PyDatetime(CHOOSE d \in ProcessedDates : \A e \in ProcessedDates : d <= e)

\* An article with an earlier date was processed after one with a later
\* date, on the page after it.
C20_Witness ==
    /\ total_articles_processed = 2 /\ Requests = 2
    /\ DatesYielded(served) = <<2, 1>>
    /\ earliest_article_date = PyDatetime(1)

\* ------------------------------------------------------------- C21
\* C21: total_articles_processed is 0 until the first article, never
\* decreases and changes only by 1, in the step that handles an article (one
\* index_document call, after which run() goes on); and when run() has
\* completed it equals the number of articles in the success pages the
\* fetcher yielded, which is the number of index_document calls.
C21_CounterCountsArticles ==
    [][/\ index_calls = 0 => total_articles_processed = 0
       /\ total_articles_processed' \in
              {total_articles_processed, total_articles_processed + 1}
       /\ total_articles_processed' = total_articles_processed + 1 <=>
              /\ pc = "article" /\ pc' # "failed"
              /\ index_calls' = index_calls + 1
       /\ pc' = "finished" =>
              /\ total_articles_processed' = ArticlesYielded'
              /\ total_articles_processed' = index_calls'
      ]_vars

\* A run completed after 2 articles on 2 success pages, with a failure
\* of the store in between.
C21_Witness ==
    /\ pc = "finished" /\ total_articles_processed = 2 /\ index_calls = 2
    /\ ArticlesYielded = 2 /\ Requests = 2 /\ Len(es_docs) = 1

\* ------------------------------------------------------------- C22
\* Success pages with at least one article among the responses yielded.
PagesWithArticles ==
    Cardinality({i \in 1..Len(served) :
                    served[i].kind = "response" /\ served[i].success /\ served[i].n > 0})

\* C22: every response the upstream returned uses up one unit of the page
\* budget, whatever it holds: pages_fetched counts each yielded response
\* once the generator was resumed after it, failure pages and empty success
\* pages like pages with articles.  So with a budget N >= 0 no more than N
\* responses are yielded, of which those with articles are a part, and
\* pbar.update is called at most N times.
C22_EveryResponseSpendsBudget ==
    /\ genpc = "yielded" => pages_fetched = PagesYielded - 1
    /\ genpc = "done" => pages_fetched = PagesYielded
    /\ pbar <= PagesYielded /\ PagesWithArticles <= PagesYielded
    /\ (Bounded /\ config.num_pages >= 0) =>
          /\ PagesYielded <= config.num_pages
          /\ PagesWithArticles <= config.num_pages
          /\ pbar <= config.num_pages

\* A run with a budget of 2 spent it on a failure page and an empty success
\* page, and ended on the budget with no article ingested.
C22_Witness ==
    /\ Bounded /\ config.num_pages = 2 /\ pc = "finished"
    /\ PagesYielded = 2 /\ pages_fetched = 2 /\ PagesWithArticles = 0
    /\ ~served[1].success /\ served[2].success /\ served[2].n = 0 /\ served[2].cursor
    /\ pbar = 1

=============================================================================
